---- MODULE Spec2Model ----
(***************************************************************************)
(* Model of package specialcmd (internal/specialcmd/specialcmd.go) of      *)
(* gonb: the special commands `%<cmd> args` and `!<shell command>` of a    *)
(* notebook cell.                                                          *)
(*                                                                         *)
(* Strings are sequences of one-character strings, so that joinLine,       *)
(* parseCmdBody and splitCmd are computed character by character as the    *)
(* code does.  Line numbers and string positions are 0-based as in the     *)
(* source; the TLA+ sequences holding them are 1-based, hence the `+ 1`    *)
(* at every access.                                                        *)
(***************************************************************************)
EXTENDS Integers, Sequences, FiniteSets, TLC

VARIABLES
  codeLines,   \* Parse: the lines of the cell
  usedLines,   \* Parse: Set[int] of the lines taken by special commands
  usedAtEntry, \* usedLines as the caller passed it (history, never read by the code)
  lineNum,     \* Parse: loop variable
  pc,          \* Parse: "loop", "hb" (in SendHeartbeatAndWait), "done" (returned) or
               \* "panic" (Go runtime panic)
  err,         \* Parse: the named result `err`
  execute,     \* Parse: parameter
  allowStdin,  \* msg.ComposedMsg().Content["allow_stdin"]
  status,      \* cellStatus
  goExec,      \* goexec.State: the fields the package assigns, the Declaration Store
               \* (Definitions: identifier -> declaration) and the state of go.mod
  osEnv,       \* process environment (os.Setenv)
  cwd,         \* process working directory (os.Chdir)
  files,       \* file system: name -> content
  published,   \* what was published to the front-end, in order
  shells,      \* the shell executions made by execShell, in order
  calls,       \* the calls made into goexec.State and its Comms, in order
  log,         \* history: one record per special command handled (never read by the code)
  goExecAtEntry, \* goExec as the caller passed it (history, never read by the code)
  prior,       \* history: how many calls of Parse returned before this one, and the
               \* cellStatus the last of them ended with (never read by the code)
  session,     \* the execution of the cell's Go code after Parse: the Execution Session
  split        \* splitCmd's local variables, for the specification of splitCmd alone

pvars == <<codeLines, usedLines, usedAtEntry, lineNum, pc, err, execute, allowStdin,
           status, goExec, osEnv, cwd, files, published, shells, calls, log,
           goExecAtEntry, prior, session>>
vars == <<pvars, split>>

----------------------------------------------------------------------------
(* Characters.                                                             *)

SP == " "
TAB == "\t"
NL == "\n"
QUOTE == "\""
BSL == "\\"

\* strings.Index(s, c) for a one-character c: 0-based position or -1.
Index(s, c) ==
  IF \E i \in 1..Len(s) : s[i] = c
  THEN (CHOOSE i \in 1..Len(s) : s[i] = c /\ \A j \in 1..(i - 1) : s[j] # c) - 1
  ELSE -1

\* s[from:] of Go, from 0-based.
From(s, from) == SubSeq(s, from + 1, Len(s))

\* s[:to] of Go, to 0-based and exclusive.
Upto(s, to) == SubSeq(s, 1, to)

RECURSIVE Concat(_)
\* The concatenation of a sequence of strings.
Concat(ss) == IF ss = <<>> THEN <<>> ELSE Head(ss) \o Concat(Tail(ss))

----------------------------------------------------------------------------
(* splitCmd.                                                               *)

\* The local variables of splitCmd at loop entry.
splitStart(cmd) ==
  [cmd |-> cmd, pos |-> 0, parts |-> <<>>, part |-> <<>>,
   partStarted |-> FALSE, inQuotes |-> FALSE, returned |-> FALSE]

\* Mutant of splitOnSpace: the part is appended even when none was started.
splitOnSpaceAlways(s) ==
  [s EXCEPT !.parts = Append(s.parts, s.part),
            !.part = <<>>, !.partStarted = FALSE, !.pos = s.pos + 1]

\* `if !inQuotes && isSpace { ... continue }`
splitOnSpace(s) ==
  [s EXCEPT !.parts = IF s.partStarted THEN Append(s.parts, s.part) ELSE s.parts,
            !.part = <<>>, !.partStarted = FALSE, !.pos = s.pos + 1]

\* `if isQuote { ... continue }`
splitOnQuote(s) ==
  IF s.inQuotes
  THEN [s EXCEPT !.inQuotes = FALSE, !.pos = s.pos + 1]
  ELSE [s EXCEPT !.inQuotes = TRUE, !.partStarted = TRUE, !.pos = s.pos + 1]

\* Mutant of splitOnEscape: the escaped character is copied untranslated.
splitOnEscapeRaw(s) ==
  IF s.pos = Len(s.cmd) - 1
  THEN [s EXCEPT !.pos = Len(s.cmd)]
  ELSE [s EXCEPT !.part = Append(s.part, s.cmd[s.pos + 2]),
                 !.partStarted = TRUE, !.pos = s.pos + 2]

\* `if isEscape && inQuotes { ... }` followed by the append of the character.
\* `break` leaves the loop: modelled by moving pos to the end of cmd.
splitOnEscape(s) ==
  IF s.pos = Len(s.cmd) - 1
  THEN [s EXCEPT !.pos = Len(s.cmd)]
  ELSE LET c == s.cmd[s.pos + 2]
           e == CASE c = "n" -> NL
                  [] c = "t" -> TAB
                  [] OTHER -> c
       IN [s EXCEPT !.part = Append(s.part, e),
                    !.partStarted = TRUE, !.pos = s.pos + 2]

\* `part = fmt.Sprintf("%s%c", part, c); partStarted = true`
splitOnChar(s) ==
  [s EXCEPT !.part = Append(s.part, s.cmd[s.pos + 1]),
            !.partStarted = TRUE, !.pos = s.pos + 1]

\* One iteration of the loop of splitCmd, for s.pos < Len(s.cmd).
splitIter(s) ==
  LET c == s.cmd[s.pos + 1]
      isSpace == c \in {SP, TAB, NL}
  IN IF ~s.inQuotes /\ isSpace THEN splitOnSpace(s)
     ELSE IF c = QUOTE THEN splitOnQuote(s)
     ELSE IF c = BSL /\ s.inQuotes THEN splitOnEscape(s)
     ELSE splitOnChar(s)

\* The statements after the loop: parts is the result.
splitReturn(s) ==
  [s EXCEPT !.parts = IF s.partStarted THEN Append(s.parts, s.part) ELSE s.parts,
            !.returned = TRUE]

RECURSIVE splitLoop(_)
splitLoop(s) == IF s.pos >= Len(s.cmd) THEN s ELSE splitLoop(splitIter(s))

splitCmd(cmd) == splitReturn(splitLoop(splitStart(cmd))).parts

----------------------------------------------------------------------------
(* The directive names of execInternal and Parse, as strings.              *)

s_writefile == <<"w", "r", "i", "t", "e", "f", "i", "l", "e">>
s_main == <<"m", "a", "i", "n">>
s_args == <<"a", "r", "g", "s">>
s_test == <<"t", "e", "s", "t">>
s_wasm == <<"w", "a", "s", "m">>
s_widgets == <<"w", "i", "d", "g", "e", "t", "s">>
s_widgets_hb == <<"w", "i", "d", "g", "e", "t", "s", "_", "h", "b">>
s_env == <<"e", "n", "v">>
s_cd == <<"c", "d">>
s_goflags == <<"g", "o", "f", "l", "a", "g", "s">>
s_autoget == <<"a", "u", "t", "o", "g", "e", "t">>
s_noautoget == <<"n", "o", "a", "u", "t", "o", "g", "e", "t">>
s_help == <<"h", "e", "l", "p">>
s_reset == <<"r", "e", "s", "e", "t">>
s_ls == <<"l", "s">>
s_list == <<"l", "i", "s", "t">>
s_rm == <<"r", "m">>
s_remove == <<"r", "e", "m", "o", "v", "e">>
s_with_inputs == <<"w", "i", "t", "h", "_", "i", "n", "p", "u", "t", "s">>
s_with_password == <<"w", "i", "t", "h", "_", "p", "a", "s", "s", "w", "o", "r", "d">>
s_track == <<"t", "r", "a", "c", "k">>
s_untrack == <<"u", "n", "t", "r", "a", "c", "k">>
s_goworkfix == <<"g", "o", "w", "o", "r", "k", "f", "i", "x">>
s_percent == <<"%">>
s_gomod == <<"g", "o", ".", "m", "o", "d">>
s_dash_a == <<"-", "a">>
s_dash_append == <<"-", "-", "a", "p", "p", "e", "n", "d">>
s_GONB_DIR == <<"G", "O", "N", "B", "_", "D", "I", "R">>
s_dot_out == <<".", "o", "u", "t">>

----------------------------------------------------------------------------
(* joinLine and parseCmdBody.  Both insert into usedLines, which Go passes *)
(* by reference: the result carries the updated set.                       *)

RECURSIVE joinLineLoopSkipFirst(_, _, _, _)
\* Mutant of joinLineLoop: the first line joined is not inserted into usedLines.
joinLineLoopSkipFirst(lines, fromLine, used, cmdStr) ==
  IF fromLine >= Len(lines)
  THEN [cmdStr |-> cmdStr, used |-> used]
  ELSE LET joined == cmdStr \o lines[fromLine + 1]
           used1 == IF cmdStr = <<>> THEN used ELSE used \union {fromLine}
       IN IF joined[Len(joined)] # BSL
          THEN [cmdStr |-> joined, used |-> used1]
          ELSE joinLineLoopSkipFirst(lines, fromLine + 1, used1,
                                     Upto(joined, Len(joined) - 1) \o <<SP>>)

RECURSIVE joinLineLoopNoSpace(_, _, _, _)
\* Mutant of joinLineLoop: the backslash is removed and no space is put in its place.
joinLineLoopNoSpace(lines, fromLine, used, cmdStr) ==
  IF fromLine >= Len(lines)
  THEN [cmdStr |-> cmdStr, used |-> used]
  ELSE LET joined == cmdStr \o lines[fromLine + 1]
           used1 == used \union {fromLine}
       IN IF joined[Len(joined)] # BSL
          THEN [cmdStr |-> joined, used |-> used1]
          ELSE joinLineLoopNoSpace(lines, fromLine + 1, used1,
                                   Upto(joined, Len(joined) - 1))

RECURSIVE joinLineLoop(_, _, _, _)
\* The loop of joinLine, from fromLine with cmdStr as joined so far.
joinLineLoop(lines, fromLine, used, cmdStr) ==
  IF fromLine >= Len(lines)
  THEN [cmdStr |-> cmdStr, used |-> used]
  ELSE LET joined == cmdStr \o lines[fromLine + 1]
           used1 == used \union {fromLine}
       IN IF joined[Len(joined)] # BSL
          THEN [cmdStr |-> joined, used |-> used1]
          ELSE joinLineLoop(lines, fromLine + 1, used1,
                            Upto(joined, Len(joined) - 1) \o <<SP>>)

joinLine(lines, fromLine, used) == joinLineLoop(lines, fromLine, used, <<>>)

\* `len(lines[fromLine]) > 0 && (lines[fromLine][0] == '%' || lines[fromLine][0] == '!')`
bodyEnds(line) == Len(line) > 0 /\ line[1] \in {"%", "!"}

RECURSIVE parseCmdBodyLoop(_, _, _, _)
\* The loop of parseCmdBody.
parseCmdBodyLoop(lines, fromLine, used, cmdBody) ==
  IF fromLine >= Len(lines) \/ bodyEnds(lines[fromLine + 1])
  THEN [cmdBody |-> cmdBody, used |-> used]
  ELSE parseCmdBodyLoop(lines, fromLine + 1, used \union {fromLine},
                        cmdBody \o lines[fromLine + 1] \o <<NL>>)

parseCmdBody(lines, fromLine, used) ==
  parseCmdBodyLoop(lines, fromLine + 1, used \union {fromLine}, <<>>)

----------------------------------------------------------------------------
(* The state the commands act on, gathered in one record `w`:              *)
(* status, goExec, osEnv, cwd, files, published, shells, calls, and the    *)
(* outcome of the command: ret (the error returned, NoErr for nil) and     *)
(* panic (a Go runtime panic was raised).                                  *)
(* `o` holds the outcomes of the external calls the command makes.         *)

NoErr == "nil"

Ret(w, e) == [w EXCEPT !.ret = e]
Panic(w) == [w EXCEPT !.panic = TRUE]
Publish(w, m) == [w EXCEPT !.published = Append(@, m)]
Call(w, c) == [w EXCEPT !.calls = Append(@, c)]

\* A map with key k set to v.
MapSet(m, k, v) == [x \in (DOMAIN m) \union {k} |-> IF x = k THEN v ELSE m[x]]

\* slices.DeleteFunc(parts, func(s string) bool { return s == "" })
RECURSIVE DeleteEmpty(_)
DeleteEmpty(ss) ==
  IF ss = <<>> THEN <<>>
  ELSE IF Head(ss) = <<>> THEN DeleteEmpty(Tail(ss))
  ELSE <<Head(ss)>> \o DeleteEmpty(Tail(ss))

\* os.Setenv rejects an empty key and a key holding `=` (syscall.Setenv: EINVAL).
SetenvFails(key) == key = <<>> \/ Index(key, "=") >= 0

\* common.UniqueId(): a fresh id, here the number of ids issued so far.
IdsIssued(w) == Cardinality({i \in 1..Len(w.calls) : w.calls[i] = <<"UniqueId">>})

\* Mutant of execArgs: the arguments are appended to those already set.
execArgsAppend(parts, w) ==
  [w EXCEPT !.goExec.Args = @ \o Tail(parts),
            !.goExec.CellIsTest = IF parts[1] = s_test THEN TRUE ELSE @]

\* case "%", "main", "args", "test"
execArgs(parts, w) ==
  [w EXCEPT !.goExec.Args = Tail(parts),
            !.goExec.CellIsTest = IF parts[1] = s_test THEN TRUE ELSE @]

\* case "wasm"
execWasm(parts, w, o) ==
  IF Len(parts) > 1 THEN Ret(w, "wasm takes no extra parameters")
  ELSE LET w1 == Call([w EXCEPT !.goExec.CellIsWasm = TRUE], <<"MakeWasmSubdir">>)
       IN IF ~o.ok THEN Ret(w1, "failed to prepare wasm")
          ELSE [Call(w1, <<"UniqueId">>) EXCEPT !.goExec.WasmDivId = IdsIssued(w1) + 1]

\* case "widgets"
execWidgets(parts, w, o) ==
  Ret(Call(w, <<"InstallWebSocket">>), IF o.ok THEN NoErr ELSE "InstallWebSocket failed")

\* case "widgets_hb", the call: goExec.Comms.SendHeartbeatAndWait(msg, 1*time.Second).
execWidgetsHbSend(w) == Call(w, <<"SendHeartbeatAndWait">>)

\* Mutant of execWidgetsHbReturn: a heartbeat that timed out is returned as an error.
execWidgetsHbTimeoutErr(w, o) ==
  IF ~o.ok THEN Ret(w, "SendHeartbeatAndWait failed")
  ELSE IF ~o.hb THEN Ret(w, "timed out")
  ELSE Ret(Publish(w, [stream |-> "html", text |-> <<"pong received">>]),
           IF o.pub THEN NoErr ELSE "publish failed")

\* case "widgets_hb", once SendHeartbeatAndWait has returned: with an error (o.ok
\* false), with the pong (o.hb) or without it.
execWidgetsHbReturn(w, o) ==
  IF ~o.ok THEN Ret(w, "SendHeartbeatAndWait failed")
  ELSE Ret(Publish(w, [stream |-> "html",
                       text |-> IF o.hb THEN <<"pong received">> ELSE <<"timed out">>]),
           IF o.pub THEN NoErr ELSE "publish failed")

\* case "widgets_hb"
execWidgetsHb(parts, w, o) == execWidgetsHbReturn(execWidgetsHbSend(w), o)

\* case "env"
execEnv(parts, w) ==
  LET eqPos == IF Len(parts) = 2 THEN Index(parts[2], "=") ELSE -1
      parts1 == IF Len(parts) = 2 /\ eqPos > 1
                THEN <<parts[1], Upto(parts[2], eqPos), From(parts[2], eqPos + 1)>>
                ELSE parts
  IN IF Len(parts1) # 3 THEN Ret(w, "env takes 2 arguments")
     ELSE IF SetenvFails(parts1[2]) THEN Ret(w, "env failed")
     ELSE Publish([w EXCEPT !.osEnv = MapSet(@, parts1[2], parts1[3])],
                  [stream |-> "stdout", text |-> <<"Set", parts1[2], parts1[3]>>])

\* Mutant of execCd: the change of directory is reported but os.Chdir is not called.
execCdNoChdir(parts, w, o) ==
  IF Len(parts) = 1
  THEN Publish(w, [stream |-> "stdout", text |-> <<"Current directory", w.cwd>>])
  ELSE IF Len(parts) > 2 THEN Ret(w, "cd takes none or one argument")
  ELSE IF ~o.ok THEN Ret(w, "cd failed")
  ELSE Publish([w EXCEPT !.osEnv = MapSet(@, s_GONB_DIR, parts[2])],
               [stream |-> "stdout", text |-> <<"Changed directory to", parts[2]>>])

\* case "cd".  The directory named is taken as the resulting working directory
\* (ReplaceTildeInDir and the resolution of relative paths are left out).
execCd(parts, w, o) ==
  IF Len(parts) = 1
  THEN Publish(w, [stream |-> "stdout", text |-> <<"Current directory", w.cwd>>])
  ELSE IF Len(parts) > 2 THEN Ret(w, "cd takes none or one argument")
  ELSE IF ~o.ok THEN Ret(w, "cd failed")
  ELSE Publish([w EXCEPT !.cwd = parts[2],
                         !.osEnv = MapSet(@, s_GONB_DIR, parts[2])],
               [stream |-> "stdout", text |-> <<"Changed directory to", parts[2]>>])

\* Mutant of execGoflags: the empty arguments are kept.
execGoflagsKeepEmpty(parts, w) ==
  LET w1 == IF Len(parts) > 1
            THEN [w EXCEPT !.goExec.GoBuildFlags = Tail(parts)]
            ELSE w
  IN Publish(w1, [stream |-> "stdout", text |-> <<"goflags", w1.goExec.GoBuildFlags>>])

\* case "goflags"
execGoflags(parts, w) ==
  LET w1 == IF Len(parts) > 1
            THEN [w EXCEPT !.goExec.GoBuildFlags = DeleteEmpty(Tail(parts))]
            ELSE w
  IN Publish(w1, [stream |-> "stdout", text |-> <<"goflags", w1.goExec.GoBuildFlags>>])

\* Mutant of execAutoget: noautoget sets the flag as autoget does.
execAutogetBothSet(parts, w) == [w EXCEPT !.goExec.AutoGet = TRUE]

\* case "autoget" and case "noautoget"
execAutoget(parts, w) == [w EXCEPT !.goExec.AutoGet = (parts[1] = s_autoget)]

\* case "help"
execHelp(parts, w) == Publish(w, [stream |-> "markdown", text |-> <<"HelpMessage">>])

\* resetDefinitions(msg, goExec): all memorized declarations are discarded.
resetDefinitions(w) == [Call(w, <<"resetDefinitions">>) EXCEPT !.goExec.Definitions = <<>>]

\* goExec.GoModInit(): go.mod is written anew, unless it fails (o.ok false).
GoModInit(w, o) ==
  LET w1 == Call(w, <<"GoModInit">>)
  IN IF o.ok THEN [w1 EXCEPT !.goExec.GoMod = "pristine"] ELSE Ret(w1, "GoModInit failed")

\* Mutant of execReset: the definitions are not reset.
execResetKeepStore(parts, w, o) ==
  IF Len(parts) > 1 /\ (Len(parts) > 2 \/ parts[2] # s_gomod)
  THEN Ret(w, "reset only takes one optional parameter go.mod")
  ELSE GoModInit(w, o)

\* Mutant of execReset: the definitions are reset whenever the arguments are accepted.
execResetAll(parts, w, o) ==
  IF Len(parts) > 1 /\ (Len(parts) > 2 \/ parts[2] # s_gomod)
  THEN Ret(w, "reset only takes one optional parameter go.mod")
  ELSE GoModInit(resetDefinitions(w), o)

\* case "reset"
execReset(parts, w, o) ==
  IF Len(parts) > 1 /\ (Len(parts) > 2 \/ parts[2] # s_gomod)
  THEN Ret(w, "reset only takes one optional parameter go.mod")
  ELSE LET w1 == IF Len(parts) = 1 THEN resetDefinitions(w) ELSE w
       IN GoModInit(w1, o)

\* case "ls", "list"
execList(parts, w) == Call(w, <<"listDefinitions">>)

\* removeDefinitions(msg, goExec, names): the declarations named are removed from
\* the store (a name the store does not hold is only reported).
removeDefinitions(w, names) ==
  LET kept(d) == \A i \in 1..Len(names) : names[i] # d.id
  IN [Call(w, <<"removeDefinitions", names>>)
        EXCEPT !.goExec.Definitions = SelectSeq(@, kept)]

\* case "rm", "remove"
execRemove(parts, w) == removeDefinitions(w, Tail(parts))

\* case "with_inputs" and case "with_password".  allow is content["allow_stdin"]:
\* the type assertion `.(bool)` panics when the content has no such boolean.
execWithInput(parts, w, allow) ==
  IF allow \notin {"true", "false"} THEN Panic(w)
  ELSE IF allow = "false" /\ (w.status.withInputs \/ w.status.withPassword)
  THEN Ret(w, "input prompting not available")
  ELSE IF parts[1] = s_with_inputs
  THEN [w EXCEPT !.status.withInputs = TRUE]
  ELSE [w EXCEPT !.status.withPassword = TRUE]

\* case "track" and case "untrack"
execTracking(parts, w) ==
  Call(w, <<IF parts[1] = s_track THEN "execTrack" ELSE "execUntrack", Tail(parts)>>)

\* case "goworkfix"
execGoWorkFix(parts, w, o) ==
  Ret(Call(w, <<"GoWorkFix">>), IF o.ok THEN NoErr ELSE "GoWorkFix failed")

\* Mutant of execDefault: the unknown directive is also returned as an error.
execDefaultErr(parts, w) ==
  Ret(Publish(w, [stream |-> "stderr", text |-> <<"unknown or not implemented yet", parts[1]>>]),
      "unknown directive")

\* default
execDefault(parts, w) ==
  Publish(w, [stream |-> "stderr", text |-> <<"unknown or not implemented yet", parts[1]>>])

\* execInternal, after `parts := splitCmd(cmdStr)`.  `switch parts[0]` panics
\* (index out of range) when cmdStr has no part.
execInternalParts(parts, w, allow, o) ==
  IF parts = <<>> THEN Panic(w)
  ELSE CASE parts[1] \in {s_percent, s_main, s_args, s_test} -> execArgs(parts, w)
         [] parts[1] = s_wasm -> execWasm(parts, w, o)
         [] parts[1] = s_widgets -> execWidgets(parts, w, o)
         [] parts[1] = s_widgets_hb -> execWidgetsHb(parts, w, o)
         [] parts[1] = s_env -> execEnv(parts, w)
         [] parts[1] = s_cd -> execCd(parts, w, o)
         [] parts[1] = s_goflags -> execGoflags(parts, w)
         [] parts[1] \in {s_autoget, s_noautoget} -> execAutoget(parts, w)
         [] parts[1] = s_help -> execHelp(parts, w)
         [] parts[1] = s_reset -> execReset(parts, w, o)
         [] parts[1] \in {s_ls, s_list} -> execList(parts, w)
         [] parts[1] \in {s_rm, s_remove} -> execRemove(parts, w)
         [] parts[1] \in {s_with_inputs, s_with_password} -> execWithInput(parts, w, allow)
         [] parts[1] \in {s_track, s_untrack} -> execTracking(parts, w)
         [] parts[1] = s_goworkfix -> execGoWorkFix(parts, w, o)
         [] OTHER -> execDefault(parts, w)

execInternal(cmdStr, w, allow, o) == execInternalParts(splitCmd(cmdStr), w, allow, o)

----------------------------------------------------------------------------
(* execShell and execWriteFile.                                            *)

\* goExec.TempDir
TempDir == <<"T">>

\* Mutant of execShell: a shell execution resets only the flag whose mode it ran in.
execShellOwnFlag(cmdStr, w, o) ==
  LET star == cmdStr[1] = "*"
      mode == IF w.status.withInputs THEN "inputs"
              ELSE IF w.status.withPassword THEN "password" ELSE "plain"
      w1 == IF mode = "inputs" THEN [w EXCEPT !.status.withInputs = FALSE]
            ELSE [w EXCEPT !.status.withPassword = FALSE]
  IN Ret([w1 EXCEPT !.shells = Append(@, [cmd |-> IF star THEN Tail(cmdStr) ELSE cmdStr,
                                          dir |-> IF star THEN TempDir ELSE <<>>,
                                          cwd |-> w.cwd, env |-> w.osEnv, mode |-> mode])],
         IF o.ok THEN NoErr ELSE "shell failed")

\* Mutant of execShell: the branch for interactive input leaves InDir(execDir) out.
execShellInputsHere(cmdStr, w, o) ==
  LET star == cmdStr[1] = "*"
      mode == IF w.status.withInputs THEN "inputs"
              ELSE IF w.status.withPassword THEN "password" ELSE "plain"
      w1 == IF mode = "plain" THEN w
            ELSE [w EXCEPT !.status = [withInputs |-> FALSE, withPassword |-> FALSE]]
  IN Ret([w1 EXCEPT !.shells = Append(@, [cmd |-> IF star THEN Tail(cmdStr) ELSE cmdStr,
                                          dir |-> IF star /\ mode # "inputs" THEN TempDir ELSE <<>>,
                                          cwd |-> w.cwd, env |-> w.osEnv, mode |-> mode])],
         IF o.ok THEN NoErr ELSE "shell failed")

\* execShell: one jpyexec execution of `/bin/bash -c cmdStr` in execDir ("" is the
\* current directory), WithInputs, WithPassword or plain.  cwd and env are the
\* working directory and the environment of the process at that moment, which the
\* child inherits.
execShell(cmdStr, w, o) ==
  LET star == cmdStr[1] = "*"
      mode == IF w.status.withInputs THEN "inputs"
              ELSE IF w.status.withPassword THEN "password" ELSE "plain"
      w1 == IF mode = "plain" THEN w
            ELSE [w EXCEPT !.status = [withInputs |-> FALSE, withPassword |-> FALSE]]
  IN Ret([w1 EXCEPT !.shells = Append(@, [cmd |-> IF star THEN Tail(cmdStr) ELSE cmdStr,
                                          dir |-> IF star THEN TempDir ELSE <<>>,
                                          cwd |-> w.cwd, env |-> w.osEnv, mode |-> mode])],
         IF o.ok THEN NoErr ELSE "shell failed")

\* common.FlagsParse(args, noValArg = {append}, schema = {a: append}), as far as
\* execWriteFile reads its result: whether `append` was given and the first
\* positional argument.
FlagsParse(args) ==
  LET pos == {i \in 1..Len(args) : args[i] = <<>> \/ args[i][1] # "-"}
  IN [append |-> \E i \in 1..Len(args) : args[i] \in {s_dash_a, s_dash_append},
      hasPos1 |-> pos # {},
      pos1 |-> IF pos = {} THEN <<>> ELSE args[CHOOSE i \in pos : \A j \in pos : i <= j]]

\* goExec.UniqueID
UniqueID == <<"U">>

\* The content of file name in directory dir, "" when it does not exist.
FileContent(fs, dir, name) == IF <<dir, name>> \in DOMAIN fs THEN fs[<<dir, name>>] ELSE <<>>

\* Mutant of execWriteFile: the file is opened with O_APPEND whatever the flag.
execWriteFileAppend(args, cmdBody, w, o) ==
  LET parse == FlagsParse(args)
      filename == IF parse.hasPos1 THEN parse.pos1 ELSE UniqueID \o s_dot_out
      old == FileContent(w.files, w.cwd, filename)
  IN IF ~o.ok THEN Ret(w, "open failed")
     ELSE IF ~o.ok2
     THEN Ret([w EXCEPT !.files = MapSet(@, <<w.cwd, filename>>, old)], "write failed")
     ELSE Ret(Publish([w EXCEPT !.files = MapSet(@, <<w.cwd, filename>>, old \o cmdBody)],
                      [stream |-> "stdout", text |-> <<"write success", filename>>]),
              IF o.pub THEN NoErr ELSE "publish failed")

\* execWriteFile.  o.ok: os.OpenFile succeeds; o.ok2: file.WriteString succeeds
\* (when it fails the file was already opened, hence created or truncated).
execWriteFile(args, cmdBody, w, o) ==
  LET parse == FlagsParse(args)
      appendMode == parse.append
      filename == IF parse.hasPos1 THEN parse.pos1 ELSE UniqueID \o s_dot_out
      old == FileContent(w.files, w.cwd, filename)
      opened == IF appendMode THEN old ELSE <<>>
  IN IF ~o.ok THEN Ret(w, "open failed")
     ELSE IF ~o.ok2
     THEN Ret([w EXCEPT !.files = MapSet(@, <<w.cwd, filename>>, opened)], "write failed")
     ELSE Ret(Publish([w EXCEPT !.files = MapSet(@, <<w.cwd, filename>>, opened \o cmdBody)],
                      [stream |-> "stdout", text |-> <<"write success", filename>>]),
              IF o.pub THEN NoErr ELSE "publish failed")

----------------------------------------------------------------------------
(* Parse.  One action per way through one iteration of its loop.           *)

\* `len(line) > 1 && (line[0] == '%' || line[0] == '!')`
isSpecial(line) == Len(line) > 1 /\ line[1] \in {"%", "!"}

RECURSIVE skipInitialSpace(_)
\* `for cmdStr[0] == ' ' { cmdStr = cmdStr[1:] }`: cmdStr[0] panics (index out of
\* range) once cmdStr is empty, so the `len(cmdStr) == 0` test after it is never true.
skipInitialSpace(cmdStr) ==
  IF cmdStr = <<>> THEN [panic |-> TRUE, cmdStr |-> <<>>]
  ELSE IF cmdStr[1] = SP THEN skipInitialSpace(Tail(cmdStr))
  ELSE [panic |-> FALSE, cmdStr |-> cmdStr]

World ==
  [status |-> status, goExec |-> goExec, osEnv |-> osEnv, cwd |-> cwd, files |-> files,
   published |-> published, shells |-> shells, calls |-> calls,
   ret |-> NoErr, panic |-> FALSE]

SetWorld(w) ==
  /\ status' = w.status
  /\ goExec' = w.goExec
  /\ osEnv' = w.osEnv
  /\ cwd' = w.cwd
  /\ files' = w.files
  /\ published' = w.published
  /\ shells' = w.shells
  /\ calls' = w.calls

worldVars == <<status, goExec, osEnv, cwd, files, published, shells, calls>>
inputVars == <<codeLines, usedAtEntry, execute, allowStdin, goExecAtEntry, prior>>

\* The line at lineNum is a special command: what Parse computes before `if execute`.
AtSpecial ==
  /\ pc = "loop" /\ lineNum < Len(codeLines) /\ lineNum \notin usedLines
  /\ isSpecial(codeLines[lineNum + 1])
Joined == joinLine(codeLines, lineNum, usedLines)
cmdType == Joined.cmdStr[1]
Skipped == skipInitialSpace(Tail(Joined.cmdStr))
cmdStr == Skipped.cmdStr

\* `if err != nil { return }`, else on to the next line.
Continue(ret) ==
  /\ err' = ret
  /\ pc' = IF ret # NoErr THEN "done" ELSE "loop"
  /\ lineNum' = IF ret # NoErr THEN lineNum ELSE lineNum + 1

\* `if usedLines.Has(lineNum) { continue }`, or the line is no special command.
ParseSkip ==
  /\ pc = "loop" /\ lineNum < Len(codeLines)
  /\ lineNum \in usedLines \/ ~isSpecial(codeLines[lineNum + 1])
  /\ lineNum' = lineNum + 1
  /\ UNCHANGED <<inputVars, session, usedLines, pc, err, worldVars, log, split>>

\* A special command with nothing but spaces after the sigil: runtime panic.
ParseEmpty ==
  /\ AtSpecial /\ Skipped.panic
  /\ usedLines' = Joined.used
  /\ pc' = "panic"
  /\ UNCHANGED <<inputVars, session, lineNum, err, worldVars, log, split>>

\* execute is false: the lines are joined and marked used, nothing is run.
ParseNoExecute ==
  /\ AtSpecial /\ ~Skipped.panic /\ ~execute
  /\ usedLines' = Joined.used
  /\ lineNum' = lineNum + 1
  /\ log' = Append(log, [line |-> lineNum, joined |-> Joined.cmdStr, cmd |-> cmdStr,
                         kind |-> "none", body |-> <<>>, ret |-> NoErr])
  /\ UNCHANGED <<inputVars, session, pc, err, worldVars, split>>

\* case '%' with parts[0] == "writefile"
ParseWriteFile ==
  /\ AtSpecial /\ ~Skipped.panic /\ execute /\ cmdType = "%"
  /\ LET parts == splitCmd(cmdStr)
     IN /\ Len(parts) > 0 /\ parts[1] = s_writefile
        /\ LET b == parseCmdBody(codeLines, lineNum, Joined.used)
           IN \E ok \in BOOLEAN, ok2 \in BOOLEAN, pub \in BOOLEAN :
                LET w == execWriteFile(Tail(parts), b.cmdBody, World,
                                       [ok |-> ok, ok2 |-> ok2, pub |-> pub])
                IN /\ SetWorld(w)
                   /\ usedLines' = b.used
                   /\ Continue(w.ret)
                   /\ log' = Append(log, [line |-> lineNum, joined |-> Joined.cmdStr, cmd |-> cmdStr,
                                          kind |-> "writefile", body |-> b.cmdBody,
                                          ret |-> w.ret])
  /\ UNCHANGED <<inputVars, session, split>>

\* case '%', any other directive: execInternal.  (%widgets_hb, where execInternal
\* waits for the heartbeat, takes the two steps that follow.)
ParseInternal ==
  /\ AtSpecial /\ ~Skipped.panic /\ execute /\ cmdType = "%"
  /\ LET parts == splitCmd(cmdStr)
     IN ~(Len(parts) > 0 /\ parts[1] \in {s_writefile, s_widgets_hb})
  /\ \E ok \in BOOLEAN, hb \in BOOLEAN, pub \in BOOLEAN :
       LET w == execInternal(cmdStr, World, allowStdin, [ok |-> ok, hb |-> hb, pub |-> pub])
       IN /\ SetWorld(w)
          /\ usedLines' = Joined.used
          /\ IF w.panic
             THEN pc' = "panic" /\ UNCHANGED <<err, lineNum>>
             ELSE Continue(w.ret)
          /\ log' = Append(log, [line |-> lineNum, joined |-> Joined.cmdStr, cmd |-> cmdStr,
                                 kind |-> IF w.panic THEN "panic" ELSE "internal",
                                 body |-> <<>>, ret |-> w.ret])
  /\ UNCHANGED <<inputVars, session, split>>

\* case '%', execInternal of %widgets_hb up to the call of SendHeartbeatAndWait,
\* where it waits (pc = "hb") for the pong or the timeout.
ParseHeartbeatSend ==
  /\ AtSpecial /\ ~Skipped.panic /\ execute /\ cmdType = "%"
  /\ LET parts == splitCmd(cmdStr)
     IN Len(parts) > 0 /\ parts[1] = s_widgets_hb
  /\ SetWorld(execWidgetsHbSend(World))
  /\ usedLines' = Joined.used
  /\ pc' = "hb"
  /\ log' = Append(log, [line |-> lineNum, joined |-> Joined.cmdStr, cmd |-> cmdStr,
                         kind |-> "internal", body |-> <<>>, ret |-> "waiting"])
  /\ UNCHANGED <<inputVars, session, lineNum, err, split>>

\* SendHeartbeatAndWait returns, and execInternal and Parse go on from there.
ParseHeartbeatReturn ==
  /\ pc = "hb"
  /\ \E ok \in BOOLEAN, hb \in BOOLEAN, pub \in BOOLEAN :
       LET w == execWidgetsHbReturn(World, [ok |-> ok, hb |-> hb, pub |-> pub])
       IN /\ SetWorld(w)
          /\ Continue(w.ret)
          /\ log' = [log EXCEPT ![Len(log)].ret = w.ret]
  /\ UNCHANGED <<inputVars, session, usedLines, split>>

\* case '!': execShell, then goExec.AutoTrack, whose error is assigned to err and logged.
ParseShell ==
  /\ AtSpecial /\ ~Skipped.panic /\ execute /\ cmdType = "!"
  /\ \E ok \in BOOLEAN, trackOk \in BOOLEAN :
       LET w == execShell(cmdStr, World, [ok |-> ok])
       IN /\ usedLines' = Joined.used
          /\ IF w.ret # NoErr
             THEN SetWorld(w) /\ Continue(w.ret)
             ELSE /\ SetWorld(Call(w, <<"AutoTrack">>))
                  /\ err' = IF trackOk THEN NoErr ELSE "AutoTrack failed"
                  /\ pc' = "loop"
                  /\ lineNum' = lineNum + 1
          /\ log' = Append(log, [line |-> lineNum, joined |-> Joined.cmdStr, cmd |-> cmdStr,
                                 kind |-> "shell", body |-> <<>>, ret |-> w.ret])
  /\ UNCHANGED <<inputVars, session, split>>

\* The loop ends: `return` of the named result err.
ParseReturn ==
  /\ pc = "loop" /\ lineNum >= Len(codeLines)
  /\ pc' = "done"
  /\ UNCHANGED <<inputVars, session, usedLines, lineNum, err, worldVars, log, split>>

Next ==
  \/ ParseSkip
  \/ ParseEmpty
  \/ ParseNoExecute
  \/ ParseWriteFile
  \/ ParseInternal
  \/ ParseHeartbeatSend
  \/ ParseHeartbeatReturn
  \/ ParseShell
  \/ ParseReturn

----------------------------------------------------------------------------
(* The cells Parse is run on.                                              *)

MaxLines == 3
MaxPreUsed == 1

l_x == <<"x">>
l_y == <<"y">>
l_sigil == <<"%">>
l_blank == <<"%", SP>>
l_ls == <<"!", "l", "s">>
l_star_ls_cont == <<"!", "*", "l", "s", BSL>>
l_writefile == <<"%">> \o s_writefile \o <<SP, "f">>
l_writefile_a == <<"%">> \o s_writefile \o <<SP>> \o s_dash_a \o <<SP, "f">>
l_writefile_cont == <<"%">> \o s_writefile \o <<SP, "f", BSL>>
l_with_inputs == <<"%">> \o s_with_inputs
l_with_password == <<"%">> \o s_with_password
l_bogus == <<"%", "b", "o", "g", "u", "s">>
l_wasm_x == <<"%">> \o s_wasm \o <<SP, "x">>
l_widgets_hb == <<"%">> \o s_widgets_hb

\* The state Parse starts from: a new cellStatus, err nil, lineNum 0.
ParseStart ==
  /\ lineNum = 0
  /\ pc = "loop"
  /\ err = NoErr
  /\ usedLines = usedAtEntry
  /\ status = [withInputs |-> FALSE, withPassword |-> FALSE]
  /\ log = <<>>
  /\ prior = [calls |-> 0, status |-> [withInputs |-> FALSE, withPassword |-> FALSE]]

----------------------------------------------------------------------------
(* The Declaration Store and the Build & Run pipeline that executes the    *)
(* Go code of the cell once Parse has returned.  goExec.Definitions is the *)
(* store: the declarations in insertion order.                             *)

\* merge, one declaration after the other on a working copy of the store: a
\* declaration replaces in place the entry of its identifier and kind, or is
\* appended; an identifier stored with another kind is a conflict, and then the
\* store as it was is returned.
RECURSIVE mergeLoopPartial(_, _, _)
\* Mutant of mergeLoop: at a conflict the working copy is returned.
mergeLoopPartial(work, decls, orig) ==
  IF decls = <<>> THEN [store |-> work, err |-> NoErr]
  ELSE LET d == Head(decls)
           same == {i \in 1..Len(work) : work[i].id = d.id}
       IN IF \E i \in same : work[i].kind # d.kind
          THEN [store |-> work, err |-> "conflict"]
          ELSE IF same # {}
          THEN mergeLoopPartial([i \in 1..Len(work) |-> IF i \in same THEN d ELSE work[i]],
                                Tail(decls), orig)
          ELSE mergeLoopPartial(Append(work, d), Tail(decls), orig)

RECURSIVE mergeLoop(_, _, _)
mergeLoop(work, decls, orig) ==
  IF decls = <<>> THEN [store |-> work, err |-> NoErr]
  ELSE LET d == Head(decls)
           same == {i \in 1..Len(work) : work[i].id = d.id}
       IN IF \E i \in same : work[i].kind # d.kind
          THEN [store |-> orig, err |-> "conflict"]
          ELSE IF same # {}
          THEN mergeLoop([i \in 1..Len(work) |-> IF i \in same THEN d ELSE work[i]],
                         Tail(decls), orig)
          ELSE mergeLoop(Append(work, d), Tail(decls), orig)

merge(store, decls) == mergeLoop(store, decls, store)

\* No Execution Session: the pipeline is Idle.  decls are the declarations of the
\* submission, merged the result of merge; compiles, fetches and failures count
\* the compilations, the dependency resolutions and the failed compilations of the
\* session; output counts what the child wrote, exit is how it ended; result is how
\* the last session ended.
SessionStart ==
  [state |-> "Idle", decls |-> <<>>, merged |-> [store |-> <<>>, err |-> NoErr],
   compiles |-> 0, fetches |-> 0, failures |-> <<>>, output |-> 0, exit |-> "none",
   result |-> "none"]

\* Preparing: the program is synthesized from the store and the declarations of the
\* submission; a conflict rejects the submission.
sessionPrepare(s, store) ==
  LET m == merge(store, s.decls)
  IN IF m.err # NoErr
     THEN [s EXCEPT !.merged = m, !.state = "Idle", !.result = "Rejected"]
     ELSE [s EXCEPT !.merged = m, !.state = "Compiling"]

\* Mutant of sessionCompile: every missing dependency is resolved and compiled again
\* while auto-fetch is enabled.
sessionCompileAgain(s, autoGet, outcome) ==
  LET s1 == [s EXCEPT !.compiles = @ + 1,
                      !.failures = IF outcome = "ok" THEN @ ELSE Append(@, outcome)]
  IN IF outcome = "ok" THEN [s1 EXCEPT !.state = "Compiled"]
     ELSE IF outcome = "missing dependency" /\ autoGet /\ s.fetches < 2
     THEN [s1 EXCEPT !.fetches = @ + 1]
     ELSE [s1 EXCEPT !.state = "CompileFailed"]

\* Compiling: one run of the toolchain with outcome "ok", "missing dependency" or
\* "other".  The first failure for a missing dependency, with auto-fetch enabled, is
\* followed by one dependency resolution and the session stays in Compiling for one
\* more compilation; any other failure ends in CompileFailed.
sessionCompile(s, autoGet, outcome) ==
  LET s1 == [s EXCEPT !.compiles = @ + 1,
                      !.failures = IF outcome = "ok" THEN @ ELSE Append(@, outcome)]
  IN IF outcome = "ok" THEN [s1 EXCEPT !.state = "Compiled"]
     ELSE IF outcome = "missing dependency" /\ autoGet /\ s.fetches = 0
     THEN [s1 EXCEPT !.fetches = 1]
     ELSE [s1 EXCEPT !.state = "CompileFailed"]

\* Mutant of sessionEnd: a cancelled session commits too.
sessionEndAlwaysCommits(s, store, how) ==
  [session |-> [s EXCEPT !.exit = how,
                         !.state = IF how = "exit 0" THEN "Completed"
                                   ELSE IF how = "interrupt" THEN "Cancelled" ELSE "Failed"],
   store |-> s.merged.store]

\* The end of Running: the child exited ("exit 0", "exit 1"), terminated abnormally
\* ("crash") or was interrupted ("interrupt").  The declarations are committed on a
\* normal exit, whatever the status.
sessionEnd(s, store, how) ==
  [session |-> [s EXCEPT !.exit = how,
                         !.state = IF how = "exit 0" THEN "Completed"
                                   ELSE IF how = "interrupt" THEN "Cancelled" ELSE "Failed"],
   store |-> IF how \in {"exit 0", "exit 1"} THEN s.merged.store ELSE store]

\* What the session actions leave alone.
parseVars ==
  <<codeLines, usedLines, usedAtEntry, lineNum, pc, err, execute, allowStdin, status, osEnv,
    cwd, files, published, shells, calls, log, goExecAtEntry, prior, split>>

MaxOutput == 1

\* The declarations a submission may hold.
Identifiers == {<<"f">>, <<"g">>}
Kinds == {"func", "var"}
NewDecls == [id : Identifiers, kind : Kinds, text : {"v2"}]
Submissions ==
  {<<>>} \union {<<d>> : d \in NewDecls}
  \union {<<d, e>> : d \in {x \in NewDecls : x.id = <<"f">>}, e \in {x \in NewDecls : x.id = <<"g">>}}

\* Idle -> Preparing: Parse returned nil after executing the special commands, and
\* the rest of the cell is submitted.
SessionSubmit ==
  /\ pc = "done" /\ err = NoErr /\ execute
  /\ session.state = "Idle" /\ session.result = "none"
  /\ \E d \in Submissions : session' = [SessionStart EXCEPT !.state = "Preparing", !.decls = d]
  /\ UNCHANGED <<parseVars, goExec>>

\* Preparing -> Compiling, or back to Idle with the submission rejected.
SessionPrepare ==
  /\ session.state = "Preparing"
  /\ session' = sessionPrepare(session, goExec.Definitions)
  /\ UNCHANGED <<parseVars, goExec>>

\* Compiling -> Compiling (after a dependency resolution), Compiled or CompileFailed.
SessionCompile ==
  /\ session.state = "Compiling"
  /\ \E outcome \in {"ok", "missing dependency", "other"} :
       session' = sessionCompile(session, goExec.AutoGet, outcome)
  /\ UNCHANGED <<parseVars, goExec>>

\* CompileFailed -> Idle: the diagnostics are reported.
SessionCompileFailed ==
  /\ session.state = "CompileFailed"
  /\ session' = [session EXCEPT !.state = "Idle", !.result = "CompileFailed"]
  /\ UNCHANGED <<parseVars, goExec>>

\* Compiled -> Spawning -> Running.
SessionSpawn ==
  /\ session.state \in {"Compiled", "Spawning"}
  /\ session' = [session EXCEPT !.state = IF @ = "Compiled" THEN "Spawning" ELSE "Running"]
  /\ UNCHANGED <<parseVars, goExec>>

\* Running: the child writes output, which is streamed.
SessionOutput ==
  /\ session.state = "Running" /\ session.output < MaxOutput
  /\ session' = [session EXCEPT !.output = @ + 1]
  /\ UNCHANGED <<parseVars, goExec>>

\* Running -> Completed, Failed or Cancelled.
SessionEnd ==
  /\ session.state = "Running"
  /\ \E how \in {"exit 0", "exit 1", "crash", "interrupt"} :
       LET r == sessionEnd(session, goExec.Definitions, how)
       IN /\ session' = r.session
          /\ goExec' = [goExec EXCEPT !.Definitions = r.store]
  /\ UNCHANGED parseVars

\* Completed, Failed or Cancelled -> Idle: the session is discarded.
SessionDiscard ==
  /\ session.state \in {"Completed", "Failed", "Cancelled"}
  /\ session' = [session EXCEPT !.state = "Idle", !.result = session.state]
  /\ UNCHANGED <<parseVars, goExec>>

\* Parse, then the pipeline.
SessionNext ==
  \/ Next
  \/ SessionSubmit
  \/ SessionPrepare
  \/ SessionCompile
  \/ SessionCompileFailed
  \/ SessionSpawn
  \/ SessionOutput
  \/ SessionEnd
  \/ SessionDiscard

\* The engine before the cell: goexec.State as created, nothing published or run.
EngineStart ==
  /\ goExec = [Args |-> <<>>, CellIsTest |-> FALSE, CellIsWasm |-> FALSE, WasmDivId |-> 0,
               GoBuildFlags |-> <<>>, AutoGet |-> TRUE,
               Definitions |-> <<>>, GoMod |-> "pristine"]
  /\ osEnv = <<>>
  /\ cwd = <<"/">>
  /\ files = <<>>
  /\ published = <<>>
  /\ shells = <<>>
  /\ calls = <<>>

\* Parse called on a cell of at most n lines out of lines, with at most preUsed
\* lines in usedLines already, and allow_stdin one of allows.
InitCells(lines, n, preUsed, allows) ==
  /\ codeLines \in UNION {[1..k -> lines] : k \in 1..n}
  /\ usedAtEntry \in {u \in SUBSET (0..(Len(codeLines) - 1)) : Cardinality(u) <= preUsed}
  /\ execute \in BOOLEAN
  /\ allowStdin \in allows
  /\ ParseStart
  /\ EngineStart
  /\ goExecAtEntry = goExec
  /\ session = SessionStart
  /\ split = splitStart(<<>>)

\* Cells of directives, shell commands, writefile bodies and continuations.
Lines ==
  {l_x, l_y, l_sigil, l_blank, l_ls, l_star_ls_cont, l_writefile, l_writefile_a,
   l_writefile_cont, l_bogus, l_wasm_x, l_widgets_hb}

Init == InitCells(Lines, MaxLines, MaxPreUsed, {"true"})

Spec == Init /\ [][Next]_vars

----------------------------------------------------------------------------
(* splitCmd alone, run on every command of a bounded set.                  *)

MaxCmdLen == 4

SplitAlphabet == {"a", "n", "t", SP, TAB, NL, QUOTE, BSL}

\* The example of the comment of splitCmd.
ArgsExample ==
  <<"%">> \o s_args \o <<SP, "-", "-", "t", "e", "x", "t", SP, QUOTE>>
  \o <<"h", "e", "l", "l", "o", SP, "w", "o", "r", "l", "d", QUOTE>>

SplitInputs == UNION {[1..n -> SplitAlphabet] : n \in 0..MaxCmdLen} \union {ArgsExample}

SplitIterate ==
  /\ ~split.returned /\ split.pos < Len(split.cmd)
  /\ split' = splitIter(split)
  /\ UNCHANGED pvars

SplitReturn ==
  /\ ~split.returned /\ split.pos >= Len(split.cmd)
  /\ split' = splitReturn(split)
  /\ UNCHANGED pvars

SplitNext == SplitIterate \/ SplitReturn

SplitInit ==
  /\ split \in {splitStart(c) : c \in SplitInputs}
  /\ codeLines = <<>>
  /\ usedAtEntry = {}
  /\ execute = FALSE
  /\ allowStdin = "absent"
  /\ ParseStart
  /\ EngineStart
  /\ goExecAtEntry = goExec
  /\ session = SessionStart

SplitSpec == SplitInit /\ [][SplitNext]_vars

----------------------------------------------------------------------------
(* Cells about input prompting: %with_inputs, %with_password and shell     *)
(* commands, with allow_stdin true, false or missing.                      *)

MaxInputLines == 4

InputLines ==
  {l_with_inputs, l_with_password, l_ls, l_x, l_blank, l_writefile, l_widgets_hb}

InputInit == InitCells(InputLines, MaxInputLines, 0, {"true", "false", "absent"})

InputSpec == InputInit /\ [][Next]_vars

----------------------------------------------------------------------------
(* Cells of shell commands among the directives that change what a shell   *)
(* command sees: %cd, %env, %with_inputs, %with_password.                  *)

MaxShellLines == 3

l_star_ls == <<"!", "*", "l", "s">>
l_cd_a == <<"%">> \o s_cd \o <<SP, "a">>
l_cd_b == <<"%">> \o s_cd \o <<SP, "b">>
l_env_k_v == <<"%">> \o s_env \o <<SP, "K", SP, "v">>

ShellLines ==
  {l_ls, l_star_ls, l_cd_a, l_cd_b, l_env_k_v, l_with_inputs, l_with_password,
   l_blank, l_writefile, l_widgets_hb, l_x}

ShellInit == InitCells(ShellLines, MaxShellLines, 0, {"true"})

ShellSpec == ShellInit /\ [][Next]_vars

----------------------------------------------------------------------------
(* Cells of %goflags, %reset and %widgets_hb, in an engine that earlier     *)
(* cells left with build flags, stored declarations and an edited go.mod.  *)

MaxDirectiveLines == 2

l_goflags == <<"%">> \o s_goflags
l_goflags_c == <<"%">> \o s_goflags \o <<SP, "-", "c">>
l_goflags_empty == <<"%">> \o s_goflags \o <<SP, QUOTE, QUOTE>>
l_goflags_mixed == <<"%">> \o s_goflags \o <<SP, QUOTE, QUOTE, SP, "-", "c", SP, QUOTE, QUOTE>>
l_reset == <<"%">> \o s_reset
l_reset_gomod == <<"%">> \o s_reset \o <<SP>> \o s_gomod
l_reset_x == <<"%">> \o s_reset \o <<SP, "x">>
l_reset_gomod_x == <<"%">> \o s_reset \o <<SP>> \o s_gomod \o <<SP, "x">>

DirectiveLines ==
  {l_goflags, l_goflags_c, l_goflags_empty, l_goflags_mixed, l_reset, l_reset_gomod,
   l_reset_x, l_reset_gomod_x, l_widgets_hb, l_blank, l_ls, l_writefile, l_x}

\* Declarations memorized by earlier cells.
StoredF == [id |-> <<"f">>, kind |-> "func", text |-> "v1"]
StoredG == [id |-> <<"g">>, kind |-> "var", text |-> "v1"]
PriorFlags == {<<>>, << <<"-", "v">> >>}
PriorStores == {<<>>, <<StoredF>>, <<StoredF, StoredG>>}

\* The engine after earlier cells.
EngineAfter ==
  /\ goExec \in [Args : {<<>>}, CellIsTest : {FALSE}, CellIsWasm : {FALSE}, WasmDivId : {0},
                 GoBuildFlags : PriorFlags, AutoGet : {TRUE},
                 Definitions : PriorStores, GoMod : {"pristine", "edited"}]
  /\ osEnv = <<>>
  /\ cwd = <<"/">>
  /\ files = <<>>
  /\ published = <<>>
  /\ shells = <<>>
  /\ calls = <<>>

DirectiveInit ==
  /\ codeLines \in UNION {[1..k -> DirectiveLines] : k \in 1..MaxDirectiveLines}
  /\ usedAtEntry = {}
  /\ execute \in BOOLEAN
  /\ allowStdin = "true"
  /\ ParseStart
  /\ EngineAfter
  /\ goExecAtEntry = goExec
  /\ session = SessionStart
  /\ split = splitStart(<<>>)

DirectiveSpec == DirectiveInit /\ [][Next]_vars

----------------------------------------------------------------------------
(* Cells with %widgets_hb, with the bounded wait of SendHeartbeatAndWait.   *)

MaxHeartbeatLines == 3

HeartbeatLines == {l_widgets_hb, l_bogus, l_ls, l_blank, l_writefile, l_x}

HeartbeatInit == InitCells(HeartbeatLines, MaxHeartbeatLines, 0, {"true"})

\* SendHeartbeatAndWait waits for at most its timeout: it returns.
HeartbeatSpec == HeartbeatInit /\ [][Next]_vars /\ WF_vars(ParseHeartbeatReturn)

----------------------------------------------------------------------------
(* Cells whose special commands are followed by the execution of the rest  *)
(* of the cell, in an engine that earlier cells left with declarations.    *)

MaxSessionLines == 2

l_rm_f == <<"%">> \o s_rm \o <<SP, "f">>
l_autoget == <<"%">> \o s_autoget
l_noautoget == <<"%">> \o s_noautoget

SessionLines ==
  {l_reset, l_rm_f, l_autoget, l_noautoget, l_ls, l_blank, l_writefile, l_widgets_hb, l_x}

SessionInit ==
  /\ codeLines \in UNION {[1..k -> SessionLines] : k \in 1..MaxSessionLines}
  /\ usedAtEntry = {}
  /\ execute \in BOOLEAN
  /\ allowStdin = "true"
  /\ ParseStart
  /\ goExec \in [Args : {<<>>}, CellIsTest : {FALSE}, CellIsWasm : {FALSE}, WasmDivId : {0},
                 GoBuildFlags : {<<>>}, AutoGet : BOOLEAN,
                 Definitions : PriorStores, GoMod : {"pristine"}]
  /\ osEnv = <<>>
  /\ cwd = <<"/">>
  /\ files = <<>>
  /\ published = <<>>
  /\ shells = <<>>
  /\ calls = <<>>
  /\ goExecAtEntry = goExec
  /\ session = SessionStart
  /\ split = splitStart(<<>>)

SessionSpec == SessionInit /\ [][SessionNext]_vars

----------------------------------------------------------------------------
(* Several cells, one after the other: the kernel calls Parse for each     *)
(* with the same engine.                                                   *)

MaxCells == 2
MaxCellLines == 2

CellLines == {l_with_inputs, l_with_password, l_ls, l_blank, l_writefile, l_widgets_hb, l_x}
Cells == UNION {[1..k -> CellLines] : k \in 1..MaxCellLines}

\* Mutant of newCellStatus: the flags are those the previous call left.
newCellStatusKept == status

\* `status := &cellStatus{}`
newCellStatus == [withInputs |-> FALSE, withPassword |-> FALSE]

\* Parse has returned and is called for the next cell.
ParseAgain ==
  /\ pc = "done" /\ prior.calls + 1 < MaxCells
  /\ codeLines' \in Cells
  /\ execute' \in BOOLEAN
  /\ usedAtEntry' = {}
  /\ usedLines' = {}
  /\ lineNum' = 0
  /\ pc' = "loop"
  /\ err' = NoErr
  /\ status' = newCellStatus
  /\ log' = <<>>
  /\ goExecAtEntry' = goExec
  /\ prior' = [calls |-> prior.calls + 1, status |-> status]
  /\ UNCHANGED <<allowStdin, goExec, osEnv, cwd, files, published, shells, calls, session,
                 split>>

CellsNext == Next \/ ParseAgain

CellsInit == InitCells(CellLines, MaxCellLines, 0, {"true"})

CellsSpec == CellsInit /\ [][CellsNext]_vars

----------------------------------------------------------------------------
(* Parse as a function of the cell: the lines it marks as used when every  *)
(* command succeeds, or the runtime panic it stops in.                     *)

RECURSIVE ParseUsedLines(_, _, _, _)
ParseUsedLines(lines, n, used, exec) ==
  IF n >= Len(lines) THEN [panic |-> FALSE, used |-> used]
  ELSE IF n \in used \/ ~isSpecial(lines[n + 1])
  THEN ParseUsedLines(lines, n + 1, used, exec)
  ELSE LET j == joinLine(lines, n, used)
           sk == skipInitialSpace(Tail(j.cmdStr))
           parts == splitCmd(sk.cmdStr)
       IN IF sk.panic THEN [panic |-> TRUE, used |-> j.used]
          ELSE IF ~exec \/ j.cmdStr[1] # "%"
          THEN ParseUsedLines(lines, n + 1, j.used, exec)
          ELSE IF parts = <<>> THEN [panic |-> TRUE, used |-> j.used]
          ELSE IF parts[1] = s_writefile
          THEN ParseUsedLines(lines, n + 1, parseCmdBody(lines, n, j.used).used, exec)
          ELSE ParseUsedLines(lines, n + 1, j.used, exec)

----------------------------------------------------------------------------
(* Cells of the directives that configure the execution of the cell: the   *)
(* run arguments, test mode, auto-fetch, the environment and %wasm.        *)

MaxConfigLines == 3

l_pp == <<"%", "%">>
l_pp_a == <<"%", "%", SP, "a">>
l_args_b == <<"%">> \o s_args \o <<SP, "b">>
l_test == <<"%">> \o s_test
l_env_k_eq_v == <<"%">> \o s_env \o <<SP, "K", "=", "v">>
l_env_kk_eq_v == <<"%">> \o s_env \o <<SP, "K", "K", "=", "v">>
l_wasm == <<"%">> \o s_wasm
l_tab == <<"%", TAB>>

ConfigLines ==
  {l_pp, l_pp_a, l_args_b, l_test, l_autoget, l_noautoget, l_env_k_eq_v, l_env_kk_eq_v,
   l_env_k_v, l_wasm, l_wasm_x, l_tab, l_blank, l_ls, l_writefile, l_widgets_hb, l_x}

ConfigInit == InitCells(ConfigLines, MaxConfigLines, 0, {"true"})

ConfigSpec == ConfigInit /\ [][Next]_vars

----------------------------------------------------------------------------
(* Properties of splitCmd (under SplitSpec).                               *)

\* Tokenization stated without a scan: a character is quoted when an odd number of
\* quotes precedes it, a separator is an unquoted space, tab or newline, a token is
\* a maximal run of non-separators, and its part is the run with the quotes removed.
QuotesBefore(cmd, i) == Cardinality({j \in 1..(i - 1) : cmd[j] = QUOTE})
IsSeparator(cmd, i) == cmd[i] \in {SP, TAB, NL} /\ QuotesBefore(cmd, i) % 2 = 0
TokenStarts(cmd) ==
  {i \in 1..Len(cmd) : ~IsSeparator(cmd, i) /\ (i = 1 \/ IsSeparator(cmd, i - 1))}
TokenEnd(cmd, a) ==
  CHOOSE b \in a..Len(cmd) :
    /\ \A i \in a..b : ~IsSeparator(cmd, i)
    /\ b = Len(cmd) \/ IsSeparator(cmd, b + 1)
RECURSIVE Unquote(_)
Unquote(s) ==
  IF s = <<>> THEN <<>>
  ELSE IF Head(s) = QUOTE THEN Unquote(Tail(s))
  ELSE <<Head(s)>> \o Unquote(Tail(s))
Tokens(cmd) ==
  LET starts == TokenStarts(cmd)
      nth(k) == CHOOSE a \in starts : Cardinality({x \in starts : x < a}) = k - 1
  IN [k \in 1..Cardinality(starts) |-> Unquote(SubSeq(cmd, nth(k), TokenEnd(cmd, nth(k))))]

ArgsExampleParts ==
  << <<"%">> \o s_args, <<"-", "-", "t", "e", "x", "t">>,
     <<"h", "e", "l", "l", "o", SP, "w", "o", "r", "l", "d">> >>

\* C9: for a command without backslash, splitCmd returns the maximal runs between
\* unquoted separators, quotes removed and quoted spaces kept (an empty pair of
\* quotes gives an empty part, a run of separators gives none); the command
\* `%args --text "hello world"` gives [`%args`, `--text`, `hello world`].
C9_SplitCmdTokens ==
  split.returned =>
    /\ Index(split.cmd, BSL) < 0 => split.parts = Tokens(split.cmd)
    /\ split.cmd = ArgsExample => split.parts = ArgsExampleParts

\* C9 witness: splitCmd has returned three parts for the example command.
C9_Witness ==
  /\ split.returned
  /\ split.cmd = ArgsExample
  /\ Len(split.parts) = 3

\* The tokenizer of the claim, with its three states.
RECURSIVE Tokenizer(_, _, _, _, _)
Tokenizer(cmd, state, parts, part, started) ==
  LET flush == IF started THEN Append(parts, part) ELSE parts
  IN IF cmd = <<>> THEN [parts |-> flush, state |-> state]
     ELSE LET c == Head(cmd) rest == Tail(cmd)
          IN CASE state = "Normal" /\ c \in {SP, TAB, NL} ->
                    Tokenizer(rest, "Normal", flush, <<>>, FALSE)
               [] state = "Normal" /\ c = QUOTE ->
                    Tokenizer(rest, "InQuotes", parts, part, TRUE)
               [] state = "Normal" /\ c \notin {SP, TAB, NL, QUOTE} ->
                    Tokenizer(rest, "Normal", parts, Append(part, c), TRUE)
               [] state = "InQuotes" /\ c = QUOTE ->
                    Tokenizer(rest, "Normal", parts, part, started)
               [] state = "InQuotes" /\ c = BSL ->
                    Tokenizer(rest, "Escaped", parts, part, started)
               [] state = "InQuotes" /\ c \notin {QUOTE, BSL} ->
                    Tokenizer(rest, "InQuotes", parts, Append(part, c), TRUE)
               [] state = "Escaped" ->
                    Tokenizer(rest, "InQuotes", parts,
                              Append(part, IF c = "n" THEN NL ELSE IF c = "t" THEN TAB ELSE c),
                              TRUE)
Tokenized(cmd) == Tokenizer(cmd, "Normal", <<>>, <<>>, FALSE)

\* C10: splitCmd returns what the tokenizer with states Normal, InQuotes and Escaped
\* returns: in quotes `\n` is a newline, `\t` a tab and a backslash before another
\* character gives that character; outside quotes a backslash is an ordinary
\* character.  (Commands that end inside an escape are left out: the claim does not
\* speak of them.)
C10_SplitCmdEscapes ==
  split.returned /\ Tokenized(split.cmd).state # "Escaped"
    => split.parts = Tokenized(split.cmd).parts

\* C10 witness: splitCmd has returned for `"\n"`, with the one part newline.
C10_Witness ==
  /\ split.returned
  /\ split.cmd = <<QUOTE, BSL, "n", QUOTE>>
  /\ split.parts = << <<NL>> >>

----------------------------------------------------------------------------
(* Properties of Parse.  They are stated on the cell and on what Parse     *)
(* did (log, shells, usedLines), with their own reading of the cell.       *)

Last(s) == s[Len(s)]
NumLines == Len(codeLines)
Line(j) == codeLines[j + 1]
BeginsWithSigil(line) == Len(line) > 0 /\ line[1] \in {"%", "!"}
EndsWithBackslash(line) == Len(line) > 0 /\ line[Len(line)] = BSL
Min(S) == CHOOSE x \in S : \A y \in S : x <= y

\* The last line of the logical line that starts at line i: the first line from i on
\* that does not end in a backslash (the last line of the cell if there is none).
LogicalEnd(i) ==
  Min({j \in i..(NumLines - 1) : ~EndsWithBackslash(Line(j)) \/ j = NumLines - 1})

\* Lines i+1..LogicalEnd(i) continue line i.
IsContinuation(j) ==
  \E i \in 0..(j - 1) : BeginsWithSigil(Line(i)) /\ j <= LogicalEnd(i)

\* The first line from a on that begins with a sigil, NumLines if there is none.
NextSigil(a) ==
  Min({t \in a..NumLines : t = NumLines \/ BeginsWithSigil(Line(t))})

\* The lines a..b-1, each followed by a newline.
TextOf(a, b) == Concat([k \in 1..(b - a) |-> Line(a + k - 1) \o <<NL>>])

\* The first word of a command: the directive name.
FirstWord(cmd) == SubSeq(cmd, 1, Min({k \in 0..Len(cmd) : k = Len(cmd) \/ cmd[k + 1] = SP}))

BadArgumentErrors ==
  {"wasm takes no extra parameters", "env takes 2 arguments",
   "cd takes none or one argument", "reset only takes one optional parameter go.mod"}

\* C1: after a directive with bad arguments, Parse still processes every later
\* directive and shell line of the cell: when it has returned, each of them is in
\* usedLines.
C1_DirectiveErrorContinues ==
  \A i \in 1..Len(log) :
    log[i].ret \in BadArgumentErrors /\ pc = "done"
      => \A j \in (log[i].line + 1)..(NumLines - 1) :
           isSpecial(Line(j)) /\ ~skipInitialSpace(Tail(Line(j))).panic => j \in usedLines

KnownDirectives ==
  {s_writefile, s_percent, s_main, s_args, s_test, s_wasm, s_widgets, s_widgets_hb, s_env,
   s_cd, s_goflags, s_autoget, s_noautoget, s_help, s_reset, s_ls, s_list, s_rm, s_remove,
   s_with_inputs, s_with_password, s_track, s_untrack, s_goworkfix}

\* Parse is about to execute a directive whose name is none of the known ones.
AtUnknownDirective ==
  /\ AtSpecial /\ ~Skipped.panic /\ execute /\ cmdType = "%"
  /\ splitCmd(cmdStr) # <<>>
  /\ splitCmd(cmdStr)[1] \notin KnownDirectives

\* C2: executing an unknown directive publishes a warning on stderr, leaves err nil
\* and the engine (goExec, environment, directory, files, shell runs, input flags)
\* unchanged, and Parse goes on with the next line.
C2_UnknownDirectiveWarns ==
  [][AtUnknownDirective =>
       /\ published' = Append(published,
                              [stream |-> "stderr",
                               text |-> <<"unknown or not implemented yet",
                                          splitCmd(cmdStr)[1]>>])
       /\ err' = NoErr
       /\ pc' = "loop" /\ lineNum' = lineNum + 1
       /\ UNCHANGED <<goExec, osEnv, cwd, files, shells, calls, status>>]_vars

\* C2 witness: Parse returned nil after an unknown directive and a later command.
C2_Witness ==
  /\ pc = "done" /\ err = NoErr
  /\ \E i \in 1..Len(log) :
       /\ log[i].cmd = Tail(l_bogus) /\ log[i].kind = "internal"
       /\ Len(log) > i
       /\ \E m \in 1..Len(published) : published[m].stream = "stderr"

\* The positions of log that are shell executions; the k-th is shells[k].
ShellEntries == {i \in 1..Len(log) : log[i].kind = "shell"}
ShellOf(i) == shells[Cardinality({j \in ShellEntries : j <= i})]
\* The input directives that succeeded since the shell execution before log[i].
InputDirectivesBefore(i) ==
  {log[j].cmd : j \in {j \in 1..(i - 1) :
                         /\ \A k \in ShellEntries : ~(j < k /\ k < i)
                         /\ log[j].kind = "internal" /\ log[j].ret = NoErr
                         /\ log[j].cmd \in {s_with_inputs, s_with_password}}}

\* C3 as claimed: a shell line runs in the mode of each input directive issued since
\* the shell line before it, and without prompting if there was none.
C3_EachFlagAppliesToNextShell ==
  \A i \in ShellEntries :
    /\ s_with_inputs \in InputDirectivesBefore(i) => ShellOf(i).mode = "inputs"
    /\ s_with_password \in InputDirectivesBefore(i) => ShellOf(i).mode = "password"
    /\ InputDirectivesBefore(i) = {} => ShellOf(i).mode = "plain"

\* C3 amended: a shell line runs with interactive input if %with_inputs was issued
\* since the shell line before it, else with masked input if %with_password was,
\* else without prompting; so one shell line uses up both flags.
C3_FlagsApplyToNextShell ==
  \A i \in ShellEntries :
    ShellOf(i).mode = IF s_with_inputs \in InputDirectivesBefore(i) THEN "inputs"
                      ELSE IF s_with_password \in InputDirectivesBefore(i) THEN "password"
                      ELSE "plain"

\* C3 witness: both directives, then a shell line with interactive input, then a
\* shell line without prompting.
C3_Witness ==
  /\ Len(log) = 4 /\ Len(shells) = 2
  /\ {log[1].cmd, log[2].cmd} = {s_with_inputs, s_with_password}
  /\ shells[1].mode = "inputs" /\ shells[2].mode = "plain"

\* C4: when allow_stdin is false, every %with_inputs and %with_password returns an
\* error, no flag is set and no shell line runs with prompting.
C4_NoPromptingWhenNotAllowed ==
  allowStdin = "false" =>
    /\ ~status.withInputs /\ ~status.withPassword
    /\ \A k \in 1..Len(shells) : shells[k].mode = "plain"
    /\ \A i \in 1..Len(log) :
         log[i].kind = "internal" /\ log[i].cmd \in {s_with_inputs, s_with_password}
           => log[i].ret # NoErr

\* Parse went through the whole cell and returned (no command stopped it).
ParsedAll == pc = "done" /\ lineNum >= NumLines

WriteEntries == {i \in 1..Len(log) : log[i].kind = "writefile"}

\* C5: the body of a writefile directive is the lines after the directive (its whole
\* logical line) up to the next line that begins with a sigil, each with a newline;
\* these lines are in usedLines; the line that ends the body is not taken by the
\* directive, and it is handled as a command when Parse gets to it.
C5_WriteFileBody ==
  \A i \in {i \in WriteEntries : log[i].ret = NoErr} :
    LET first == LogicalEnd(log[i].line) + 1
        stop == NextSigil(first)
    IN /\ log[i].body = TextOf(first, stop)
       /\ \A j \in first..(stop - 1) : j \in usedLines
       /\ stop < NumLines /\ stop \notin usedAtEntry /\ isSpecial(Line(stop))
            => /\ i = Len(log) /\ pc = "loop" /\ lineNum = log[i].line + 1 => stop \notin usedLines
               /\ ParsedAll => \E k \in 1..Len(log) : log[k].line = stop

\* A writefile directive is about to be executed; the step that follows is its
\* execution.
AtWriteFile ==
  /\ AtSpecial /\ ~Skipped.panic /\ execute /\ cmdType = "%"
  /\ splitCmd(cmdStr) # <<>>
  /\ splitCmd(cmdStr)[1] = s_writefile
HasAppendFlag(cmd) == \E k \in 1..Len(splitCmd(cmd)) : splitCmd(cmd)[k] \in {s_dash_a, s_dash_append}
Written == Last(log').ret \in {NoErr, "publish failed"}

UsedForAReason(j) ==
  \/ j \in usedAtEntry
  \/ IsContinuation(j)
  \/ \E i \in WriteEntries : log[i].line < j /\ j < NextSigil(log[i].line + 1)

\* C7 as claimed: after Parse every line that begins with a sigil is in usedLines,
\* and a line that does not is there only for one of the three reasons.
C7_SigilLinesExtracted ==
  ParsedAll =>
    \A j \in 0..(NumLines - 1) :
      IF BeginsWithSigil(Line(j)) THEN j \in usedLines
      ELSE j \in usedLines => UsedForAReason(j)

\* C7 amended: the same for the lines that begin with a sigil and hold more than the
\* sigil; a line that is a sigil alone stays out of usedLines unless it is there for
\* one of the three reasons.
C7_SpecialLinesExtracted ==
  ParsedAll =>
    \A j \in 0..(NumLines - 1) :
      IF BeginsWithSigil(Line(j)) /\ Len(Line(j)) > 1 THEN j \in usedLines
      ELSE j \in usedLines => UsedForAReason(j)

\* C7 witness: Parse went through a cell with a continued command, and a line of
\* code was left out of usedLines.
C7_Witness ==
  /\ ParsedAll
  /\ \E j \in 1..(NumLines - 1) :
       /\ IsContinuation(j) /\ ~BeginsWithSigil(Line(j)) /\ j \in usedLines
       /\ \E k \in 0..(NumLines - 1) : ~BeginsWithSigil(Line(k)) /\ k \notin usedLines

RECURSIVE JoinFrom(_, _)
\* The text joined so far, continued with line j while it ends in a backslash.
JoinFrom(text, j) ==
  IF ~EndsWithBackslash(text) THEN text
  ELSE LET cut == SubSeq(text, 1, Len(text) - 1) \o <<SP>>
       IN IF j >= NumLines THEN cut ELSE JoinFrom(cut \o Line(j), j + 1)

\* C8: the command handled at a line is that line joined with the lines that
\* continue it, each backslash replaced by one space; the lines joined are in
\* usedLines and none of them is handled as a command of its own.
C8_ContinuationJoined ==
  \A i \in 1..Len(log) :
    LET from == log[i].line
        to == LogicalEnd(from)
    IN /\ log[i].joined = JoinFrom(Line(from), from + 1)
       /\ \A j \in from..to : j \in usedLines
       /\ \A k \in 1..Len(log) : ~(from < log[k].line /\ log[k].line <= to)

\* C8 witness: a shell command continued on the next line was run as one command.
C8_Witness ==
  /\ Len(shells) = 1 /\ Len(log) = 1
  /\ log[1].line = 0 /\ NumLines > 1
  /\ Line(0) = l_star_ls_cont /\ Line(1) = l_ls
  /\ shells[1].cmd = <<"l", "s", SP>> \o l_ls

----------------------------------------------------------------------------
(* Properties of the order of execution and of execShell (under ShellSpec). *)

\* The directives named name, with one argument, that succeeded before log[i].
DirectivesBefore(i, name) ==
  {j \in 1..(i - 1) : /\ log[j].kind = "internal" /\ log[j].ret = NoErr
                      /\ Len(splitCmd(log[j].cmd)) > 0
                      /\ splitCmd(log[j].cmd)[1] = name}
Max(S) == CHOOSE x \in S : \A y \in S : x >= y

\* The working directory after the `%cd <dir>` lines before log[i].
CwdBefore(i) ==
  LET cds == {j \in DirectivesBefore(i, s_cd) : Len(splitCmd(log[j].cmd)) = 2}
  IN IF cds = {} THEN <<"/">> ELSE splitCmd(log[Max(cds)].cmd)[2]

\* The value of variable K after the `%env K <value>` lines before log[i], <<>> if
\* there is none.
EnvKBefore(i) ==
  LET envs == {j \in DirectivesBefore(i, s_env) :
                 Len(splitCmd(log[j].cmd)) = 3 /\ splitCmd(log[j].cmd)[2] = <<"K">>}
  IN IF envs = {} THEN <<>> ELSE splitCmd(log[Max(envs)].cmd)[3]

C12_StarRunsInTempDir ==
  \A i \in ShellEntries :
    IF log[i].cmd[1] = "*"
    THEN ShellOf(i).dir = TempDir /\ ShellOf(i).cmd = Tail(log[i].cmd)
    ELSE ShellOf(i).dir = <<>> /\ ShellOf(i).cmd = log[i].cmd

\* C12 witness: `!*ls` ran with interactive input in TempDir and a `!ls` ran in
\* the current directory.
C12_Witness ==
  /\ \E k \in 1..Len(shells) :
       shells[k].dir = TempDir /\ shells[k].mode = "inputs" /\ shells[k].cmd = <<"l", "s">>
  /\ \E k \in 1..Len(shells) : shells[k].dir = <<>> /\ shells[k].cmd = <<"l", "s">>

----------------------------------------------------------------------------
(* Properties of %goflags, %reset and %widgets_hb (under DirectiveSpec     *)
(* and HeartbeatSpec).                                                     *)

\* Parse is about to execute the directive name; Args are its arguments.
AtDirective(name) ==
  /\ AtSpecial /\ ~Skipped.panic /\ execute /\ cmdType = "%"
  /\ splitCmd(cmdStr) # <<>>
  /\ splitCmd(cmdStr)[1] = name
Args == Tail(splitCmd(cmdStr))
NonEmptyArg(a) == a # <<>>

\* C13: %goflags with arguments sets the build flags to its non-empty arguments
\* (none for `%goflags ""`), %goflags alone leaves the flags an earlier cell set;
\* either way it publishes the resulting flags, changes nothing else of the engine
\* and Parse goes on.
C13_GoflagsKeepsOrReplaces ==
  [][AtDirective(s_goflags) =>
       LET expected == IF Args # <<>> THEN SelectSeq(Args, NonEmptyArg)
                       ELSE goExec.GoBuildFlags
       IN /\ goExec' = [goExec EXCEPT !.GoBuildFlags = expected]
          /\ codeLines[lineNum + 1] = l_goflags_empty => goExec'.GoBuildFlags = <<>>
          /\ published' = Append(published,
                                 [stream |-> "stdout", text |-> <<"goflags", expected>>])
          /\ err' = NoErr /\ pc' = "loop" /\ lineNum' = lineNum + 1]_vars

\* C13 witness: with the flag -v left by an earlier cell, `%goflags` reported it
\* and `%goflags ""` then cleared it.
C13_Witness ==
  /\ pc = "done" /\ codeLines = <<l_goflags, l_goflags_empty>>
  /\ goExecAtEntry.GoBuildFlags = << <<"-", "v">> >>
  /\ Len(published) = 2
  /\ published[1].text = <<"goflags", << <<"-", "v">> >> >>
  /\ published[2].text = <<"goflags", <<>> >>
  /\ goExec.GoBuildFlags = <<>>

\* C14: %reset without argument leaves the Declaration Store empty whatever it
\* held and calls GoModInit; unless that fails, go.mod is as initialized and Parse
\* goes on.
C14_ResetEmptiesStore ==
  [][AtDirective(s_reset) /\ Args = <<>> =>
       /\ goExec'.Definitions = <<>>
       /\ calls' = calls \o << <<"resetDefinitions">>, <<"GoModInit">> >>
       /\ \/ err' = NoErr /\ goExec'.GoMod = "pristine" /\ pc' = "loop" /\ lineNum' = lineNum + 1
          \/ err' = "GoModInit failed" /\ pc' = "done"]_vars

\* C14 witness: a cell `%reset` returned without error in an engine that held a
\* declaration and an edited go.mod.
C14_Witness ==
  /\ pc = "done" /\ err = NoErr /\ codeLines = <<l_reset>> /\ Len(log) = 1
  /\ goExecAtEntry.Definitions # <<>> /\ goExecAtEntry.GoMod = "edited"
  /\ goExec.Definitions = <<>> /\ goExec.GoMod = "pristine"

\* C20: `%reset go.mod` leaves the Declaration Store as it is and calls GoModInit
\* (go.mod is as initialized unless that fails); %reset with another argument or
\* with more than one returns an error and touches neither the store nor go.mod.
C20_ResetGoModOnly ==
  [][AtDirective(s_reset) /\ Args # <<>> =>
       IF Args = <<s_gomod>>
       THEN /\ goExec'.Definitions = goExec.Definitions
            /\ calls' = Append(calls, <<"GoModInit">>)
            /\ \/ err' = NoErr /\ goExec'.GoMod = "pristine"
               \/ err' = "GoModInit failed" /\ goExec'.GoMod = goExec.GoMod
       ELSE /\ err' = "reset only takes one optional parameter go.mod"
            /\ pc' = "done"
            /\ UNCHANGED <<goExec, calls>>]_vars

\* C20 witness: in an engine with a declaration and an edited go.mod, `%reset go.mod`
\* initialized go.mod and kept the declaration, then `%reset x` returned the error.
C20_Witness ==
  /\ pc = "done" /\ codeLines = <<l_reset_gomod, l_reset_x>> /\ Len(log) = 2
  /\ goExecAtEntry.Definitions # <<>> /\ goExecAtEntry.GoMod = "edited"
  /\ log[1].ret = NoErr
  /\ err = "reset only takes one optional parameter go.mod"
  /\ goExec.Definitions = goExecAtEntry.Definitions /\ goExec.GoMod = "pristine"

HbPong == [stream |-> "html", text |-> <<"pong received">>]
HbTimedOut == [stream |-> "html", text |-> <<"timed out">>]

\* C15: Parse does not wait forever in %widgets_hb: SendHeartbeatAndWait returns;
\* unless the send itself failed, it is then published that the pong was received
\* or that the wait timed out, and in both cases (if the publishing worked) err
\* stays nil and Parse goes on with the next line.
C15_HeartbeatReturns ==
  /\ [][pc = "hb" =>
          /\ UNCHANGED <<goExec, calls>>
          /\ \/ err' = "SendHeartbeatAndWait failed" /\ pc' = "done" /\ UNCHANGED published
             \/ /\ published' \in {Append(published, HbPong), Append(published, HbTimedOut)}
                /\ \/ err' = NoErr /\ pc' = "loop" /\ lineNum' = lineNum + 1
                   \/ err' = "publish failed" /\ pc' = "done"]_vars
  /\ (pc = "hb") ~> (pc # "hb")

\* C15 witness: the heartbeat timed out, that was published, and Parse went on to
\* run the shell command of the next line and returned nil.
C15_Witness ==
  /\ pc = "done" /\ err = NoErr /\ codeLines = <<l_widgets_hb, l_ls>>
  /\ published = <<HbTimedOut>>
  /\ Len(shells) = 1

----------------------------------------------------------------------------
(* Empty commands (under Spec).                                            *)

\* The command at lineNum is empty: nothing but spaces follows the sigil of the
\* joined line.
AtEmptyCommand ==
  /\ AtSpecial
  /\ \A k \in 2..Len(Joined.cmdStr) : Joined.cmdStr[k] = SP

\* C19: an empty command is skipped: nothing is executed, no error is set, and
\* Parse goes on with the next line.
C19_EmptyCommandSkipped ==
  [][AtEmptyCommand =>
       /\ pc' = "loop" /\ lineNum' = lineNum + 1
       /\ UNCHANGED <<err, worldVars>>]_vars

----------------------------------------------------------------------------
(* Properties of the Declaration Store and of the pipeline (under          *)
(* SessionSpec).                                                           *)

\* Where the session is, or how the last one ended.
Phase == IF session.state = "Idle" THEN session.result ELSE session.state
Store == goExec.Definitions

\* What holds of the steps of the pipeline, whatever else changes the store.
PipelineKeepsStore ==
  /\ session'.state \in {"CompileFailed", "Cancelled"} => Store' = Store
  /\ session.state # "Idle" /\ session'.exit = "none" => Store' = Store
  /\ session.state = "Running" /\ session'.exit \in {"exit 0", "exit 1"}
       => Store' = merge(Store, session.decls).store
NormalExitStep ==
  /\ session.state = "Running" /\ session'.state \in {"Completed", "Failed"}
  /\ session'.exit \in {"exit 0", "exit 1"}
  /\ Len(session.failures) < session.compiles

\* C16 as claimed: the store changes only in the step in which the child of a
\* compiled submission exits normally; it is unchanged by a compile failure, by a
\* cancellation and by every step of a session but its normal exit, and a normal
\* exit commits the declarations of the submission even with a non-zero status.
C16_StoreChangesOnlyOnExit ==
  [][/\ Store' # Store => NormalExitStep
     /\ PipelineKeepsStore]_vars

\* C16 amended: the same, apart from the directives %reset and %rm (%remove), which
\* change the store when Parse executes them, before the session of the cell.
C16_StoreChangesOnExitOrDirective ==
  [][/\ Store' # Store =>
          \/ NormalExitStep
          \/ session.state = "Idle" /\ \E name \in {s_reset, s_rm, s_remove} : AtDirective(name)
     /\ PipelineKeepsStore]_vars

\* C16 witness: the child exited with status 1 and the declaration of the
\* submission replaced the stored one.
C16_Witness ==
  /\ Phase = "Failed" /\ session.exit = "exit 1"
  /\ goExecAtEntry.Definitions = <<StoredF>>
  /\ session.decls = <<[id |-> <<"f">>, kind |-> "func", text |-> "v2"]>>
  /\ Store = session.decls

\* Auto-fetch as the directives of the cell left it: the last %autoget or %noautoget
\* executed, else what the engine had.
AutoFetchEnabled ==
  LET ds == {i \in 1..Len(log) : /\ log[i].kind = "internal"
                                 /\ log[i].cmd \in {s_autoget, s_noautoget}}
  IN IF ds = {} THEN goExecAtEntry.AutoGet ELSE log[Max(ds)].cmd = s_autoget

\* C17: a session resolves dependencies once if its first compilation failed for a
\* missing dependency with auto-fetch enabled, and never otherwise; a resolution is
\* followed by one more compilation; the session is in CompileFailed exactly when
\* its last compilation failed and no (further) resolution was due.
C17_OneRetryForMissingDependency ==
  LET f == session.failures
      retry == f # <<>> /\ f[1] = "missing dependency" /\ AutoFetchEnabled
  IN /\ session.fetches = IF retry THEN 1 ELSE 0
     /\ Phase \in {"none", "Preparing", "Rejected"} => session.compiles = 0
     /\ Phase = "Compiling" => session.compiles = session.fetches /\ Len(f) = session.fetches
     /\ Phase = "CompileFailed"
          => session.compiles = session.fetches + 1 /\ Len(f) = session.compiles
     /\ Phase \in {"Compiled", "Spawning", "Running", "Completed", "Failed", "Cancelled"}
          => session.compiles = session.fetches + 1 /\ Len(f) = session.fetches

\* C17 witness: after `%noautoget`, `%autoget` in an engine with auto-fetch off, the
\* compilation failed for a missing dependency, the dependencies were resolved once
\* and the second compilation failed: CompileFailed after two compilations.
C17_Witness ==
  /\ codeLines = <<l_noautoget, l_autoget>> /\ ~goExecAtEntry.AutoGet
  /\ Phase = "CompileFailed" /\ session.state = "CompileFailed"
  /\ session.failures = <<"missing dependency", "missing dependency">>
  /\ session.fetches = 1 /\ session.compiles = 2

\* C18: right after merge (the submission is in Compiling or was rejected), with
\* old the store and new the declarations merged: if a new declaration has the
\* identifier of a stored one of another kind, merge returned the conflict and the
\* store as it was; if not, every new declaration is in the result, as the one
\* entry of its identifier, the other stored entries are kept in place, and nothing
\* else is in it.
C18_MergeAtomic ==
  Phase \in {"Compiling", "Rejected"} =>
    LET old == Store
        new == session.decls
        res == session.merged
        ids(q) == {q[k].id : k \in 1..Len(q)}
        conflict == \E i \in 1..Len(new), j \in 1..Len(old) :
                      new[i].id = old[j].id /\ new[i].kind # old[j].kind
    IN IF conflict
       THEN res.err = "conflict" /\ res.store = old /\ Phase = "Rejected"
       ELSE /\ res.err = NoErr /\ Phase = "Compiling"
            /\ \A i \in 1..Len(new) :
                 \E k \in 1..Len(res.store) :
                   /\ res.store[k] = new[i]
                   /\ \A m \in 1..Len(res.store) : res.store[m].id = new[i].id => m = k
            /\ \A j \in 1..Len(old) :
                 old[j].id \notin ids(new) => res.store[j] = old[j]
            /\ Len(res.store) = Cardinality(ids(old) \union ids(new))

\* C18 witness: f and g are stored as func and var; the submission redefines f and
\* declares g as a func: the merge was rejected and returned the store as it was.
C18_Witness ==
  /\ Phase = "Rejected"
  /\ Store = <<StoredF, StoredG>>
  /\ session.decls = <<[id |-> <<"f">>, kind |-> "func", text |-> "v2"],
                       [id |-> <<"g">>, kind |-> "func", text |-> "v2"]>>
  /\ session.merged = [store |-> <<StoredF, StoredG>>, err |-> "conflict"]

----------------------------------------------------------------------------
(* Properties of the configuring directives (under ConfigSpec).            *)

\* The directives with one of names that Parse has executed, and the last of them.
Executed(names) ==
  {j \in 1..Len(log) : /\ log[j].kind = "internal" /\ log[j].ret = NoErr
                        /\ Len(splitCmd(log[j].cmd)) > 0
                        /\ splitCmd(log[j].cmd)[1] \in names}
LastExecuted(names) == splitCmd(log[Max(Executed(names))].cmd)

\* C21: the run arguments are those of the last %%, %main, %args or %test executed
\* (none if it had none), test mode is on exactly if a %test was executed, auto-fetch
\* is as the last %autoget or %noautoget set it; without such a directive each is as
\* the engine had it.
C21_SettingsFollowLastDirective ==
  LET args == Executed({s_percent, s_main, s_args, s_test})
      auto == Executed({s_autoget, s_noautoget})
  IN /\ goExec.Args = IF args = {} THEN goExecAtEntry.Args
                       ELSE Tail(LastExecuted({s_percent, s_main, s_args, s_test}))
     /\ goExec.CellIsTest = (goExecAtEntry.CellIsTest \/ Executed({s_test}) # {})
     /\ goExec.AutoGet = IF auto = {} THEN goExecAtEntry.AutoGet
                          ELSE LastExecuted({s_autoget, s_noautoget})[1] = s_autoget

\* C21 witness: `%test`, `%args b`, `%%`: no run arguments are left, test mode is on.
C21_Witness ==
  /\ pc = "done" /\ codeLines = <<l_test, l_args_b, l_pp>> /\ Len(log) = 3
  /\ goExec.Args = <<>> /\ goExec.CellIsTest

\* C22: `%env NAME=value`, with NAME not empty, does what `%env NAME value` does:
\* the same variable set to the same value, the same report, the same result.
C22_EnvFormsEquivalent ==
  [][AtDirective(s_env) /\ Len(Args) = 1 /\ Index(Args[1], "=") > 0 =>
       LET eq == Index(Args[1], "=")
           two == execEnv(<<s_env, Upto(Args[1], eq), From(Args[1], eq + 1)>>, World)
       IN /\ osEnv' = two.osEnv
          /\ published' = two.published
          /\ err' = two.ret]_vars

\* C27: Parse never hands execInternal a command without parts: no directive ended
\* in the runtime panic of `parts[0]`.
C27_DirectiveHasAName ==
  \A i \in 1..Len(log) : ~(log[i].kind = "panic" /\ splitCmd(log[i].cmd) = <<>>)

\* C29: a %wasm that returns an error leaves CellIsWasm and WasmDivId as they were.
C29_FailedWasmLeavesNoTrace ==
  [][AtDirective(s_wasm) /\ err' # NoErr =>
       /\ goExec'.CellIsWasm = goExec.CellIsWasm
       /\ goExec'.WasmDivId = goExec.WasmDivId]_vars

----------------------------------------------------------------------------
(* Properties of execInternal without a message (under InputSpec).         *)

\* C23: with a nil message (no allow_stdin content) no directive that execInternal
\* dispatches by name ends in a runtime panic: it completes or returns an error.
C23_NilMessageSupported ==
  allowStdin = "absent" =>
    \A i \in 1..Len(log) :
      ~(log[i].kind = "panic" /\ splitCmd(log[i].cmd) # <<>>)

----------------------------------------------------------------------------
(* Further properties of Parse (under Spec).                                *)

\* C25: the body of a %writefile continued over several lines is the text from the
\* line after its last continuation line up to the next special line.
C25_BodyAfterJoinedLine ==
  \A i \in WriteEntries :
    LogicalEnd(log[i].line) > log[i].line =>
      log[i].body = TextOf(LogicalEnd(log[i].line) + 1, NextSigil(LogicalEnd(log[i].line) + 1))

\* C26: Parse never returns the error of AutoTrack.
C26_AutoTrackOnlyLogged == ~(pc = "done" /\ err = "AutoTrack failed")

\* C24: when Parse has gone through the whole cell without error, the lines it has
\* marked are those Parse marks on the same cell and the same initial usedLines with
\* the other value of execute (every command succeeding).
C24_UsedLinesIndependentOfExecute ==
  ParsedAll /\ err = NoErr =>
    LET other == ParseUsedLines(codeLines, 0, usedAtEntry, ~execute)
    IN ~other.panic => usedLines = other.used

\* Parse, as actions and as a function, marks the same lines.
ParseUsedLinesAgrees ==
  ParsedAll /\ err = NoErr =>
    usedLines = ParseUsedLines(codeLines, 0, usedAtEntry, execute).used

----------------------------------------------------------------------------
(* Properties of the input flags over several cells (under CellsSpec).     *)

AtShell == AtSpecial /\ ~Skipped.panic /\ execute /\ cmdType = "!"
NoFlag(st) == ~st.withInputs /\ ~st.withPassword

\* C28: both flags are false when a call of Parse starts; a shell line prompts only
\* if an input directive of its own cell was executed since the shell line before
\* it; and after a shell execution that prompted both flags are false, whatever it
\* returned.
C28_FlagsPerSubmission ==
  /\ [](pc = "loop" /\ lineNum = 0 => NoFlag(status))
  /\ [][AtShell =>
          /\ Last(shells').mode # "plain" => InputDirectivesBefore(Len(log) + 1) # {}
          /\ Last(shells').mode # "plain" => NoFlag(status')]_vars

\* C28 witness: the first cell ended with withInputs set; in the second cell
\* %with_password and a shell line were executed: the shell execution asked for a
\* password, not for inputs, it failed, and both flags are false.
C28_Witness ==
  /\ prior.calls = 1 /\ prior.status.withInputs
  /\ pc = "done" /\ err = "shell failed"
  /\ Len(log) = 2 /\ log[1].cmd = s_with_password /\ log[2].kind = "shell"
  /\ Last(shells).mode = "password"
  /\ NoFlag(status)

====
